---- MODULE Spec2Model ----
(***************************************************************************)
(* The quiz-taking session of the TakeQuiz page (src/unnamed/part_001):    *)
(* the React state of the component, the quiz record it loads, the         *)
(* handleSubmitQuiz invocations that are in flight, the countdown timer,   *)
(* and the quizAttempts table of the record store.                         *)
(*                                                                         *)
(* One action is one event-loop task of the page: a click handler, an      *)
(* interval callback or the continuation of an awaited store call,         *)
(* together with the render and the effects React runs for it.             *)
(***************************************************************************)
EXTENDS Integers, Sequences, FiniteSets, TLC

VARIABLES
    route,                 \* "quiz" while TakeQuiz is mounted, else where the router went
    dbQuiz,                \* the quizzes table's record for the route's id
    loadPending,           \* loadQuiz awaits blink.db.quizzes.list
    quiz,                  \* useState<Quiz | null>
    loading,               \* useState(true)
    currentQuestionIndex,  \* useState(0)
    answers,               \* useState<Record<string, number>>({})
    timeLeft,              \* useState(0)
    startTime,             \* useState<Date | null>(null)
    isCompleted,           \* useState(false)
    results,               \* useState<{score, correctAnswers, totalQuestions} | null>
    calls,                 \* the handleSubmitQuiz invocations awaiting the backend
    attempts,              \* the quizAttempts table, in creation order
    alerts,                \* alert() dialogs shown
    submits,               \* handleSubmitQuiz invocations
    autoSubmits,           \* handleSubmitQuiz invocations from the interval callback
    ticks,                 \* interval callbacks that have run
    retrySaved,            \* an invocation made after an alert has been saved
    rows,                  \* the store table a page reads or writes, in creation order
    fetching,              \* the backend calls a page awaits
    pageAttempts,          \* useState<(QuizAttempt & { quiz?: Quiz })[]>([]) of the page
    controls,              \* the state behind the page's controls
    shown                  \* what the page's last render displays

vars == <<route, dbQuiz, loadPending, quiz, loading, currentQuestionIndex,
          answers, timeLeft, startTime, isCompleted, results, calls,
          attempts, alerts, submits, autoSubmits, ticks, retrySaved,
          rows, fetching, pageAttempts, controls, shown>>

\* The state of the pages that aggregate the stored attempts.
pages == <<rows, fetching, pageAttempts, controls, shown>>

----------------------------------------------------------------------------
(* Bounds and inputs *)

\* A session's question count plus its handleSubmitQuiz invocations stay
\* within this: a quiz of n questions is submitted at most SessionBudget - n
\* times, the countdown's submission included.
SessionBudget == 4

\* In a timed session the user stays idle until this many seconds are left.
UserWindow == 1

\* The scoring specification's quizzes have up to this many questions.
MaxScoreQuestions == 4

SecondsPerMinute == 60

NumOptions == 4

Null == [null |-> TRUE]

NoQuiz == [none |-> TRUE]

Malformed == [malformed |-> TRUE]

Started == [started |-> TRUE]

\* The options a question offers (indices into its options array).
OptionIndices == 0 .. (NumOptions - 1)

\* The options the user picks in the session model: the question's correct
\* option and the one after it.
PickedOptions(question) ==
    {question.correctAnswer, (question.correctAnswer + 1) % NumOptions}

\* Every session is left room for two submissions from a button.
QuestionCounts == 1 .. (SessionBudget - 2)

\* The correct option of the question at position i: 0, 1, 2, 3, 0, ...
KeyAt(i) == (i - 1) % NumOptions

\* questions: `q_${index + 1}` ids, a correctAnswer each.
QuestionList(n) == [i \in 1 .. n |-> [id |-> i, correctAnswer |-> KeyAt(i)]]

QuizOf(n, isTimed, timeLimit) ==
    [questions |-> QuestionList(n), isTimed |-> isTimed, timeLimit |-> timeLimit]

\* Stored quizzes: untimed (timeLimit null) and timed with a limit of one
\* minute, of every length; one with the flag off and a limit stored; and
\* one timed with a limit of two minutes.
Quizzes ==
    { QuizOf(n, 0, 0) : n \in QuestionCounts }
    \cup { QuizOf(n, 1, 1) : n \in QuestionCounts }
    \cup { QuizOf(1, 0, 1), QuizOf(1, 1, 2) }

\* The scoring specification's quizzes, untimed.
ScoreQuizzes == { QuizOf(n, 0, 0) : n \in 1 .. MaxScoreQuestions }

\* Every partial answer map of a quiz.
AnswerMaps(q) ==
    UNION { [S -> OptionIndices] : S \in SUBSET (1 .. Len(q.questions)) }

----------------------------------------------------------------------------
(* Pure helpers *)

Min(a, b) == IF a < b THEN a ELSE b

Max(a, b) == IF a > b THEN a ELSE b

\* Math.round(x) for x = num / den, den > 0: the nearest integer, halves up.
MathRound(num, den) == (2 * num + den) \div (2 * den)

\* answers[question.id] === question.correctAnswer; a missing key is undefined.
IsCorrect(ans, question) ==
    /\ question.id \in DOMAIN ans
    /\ ans[question.id] = question.correctAnswer

\* quiz.questions.forEach(question => { if (...) correctAnswers++ })
RECURSIVE CountCorrect(_, _, _)
CountCorrect(questions, ans, i) ==
    IF i > Len(questions) THEN 0
    ELSE (IF IsCorrect(ans, questions[i]) THEN 1 ELSE 0)
         + CountCorrect(questions, ans, i + 1)

\* Math.floor in place of Math.round.
ScoreOfFloor(correctAnswers, n) == (100 * correctAnswers) \div n

\* Math.round((correctAnswers / quiz.questions.length) * 100)
ScoreOf(correctAnswers, n) == MathRound(100 * correctAnswers, n)

\* { [questionId]: answerIndex }, the spread of prev forgotten.
SetAnswerAlone(prev, questionId, answerIndex) ==
    [k \in {questionId} |-> answerIndex]

\* { ...prev, [questionId]: answerIndex }
SetAnswer(prev, questionId, answerIndex) ==
    [k \in DOMAIN prev \cup {questionId} |->
        IF k = questionId THEN answerIndex ELSE prev[k]]

\* The limit taken without looking at the isTimed flag.
InitialTimeLeftAnyFlag(q) == q.timeLimit * SecondsPerMinute

\* A counter set in milliseconds.
InitialTimeLeftInMillis(q) ==
    IF q.isTimed > 0 /\ q.timeLimit # 0
    THEN q.timeLimit * SecondsPerMinute * 1000
    ELSE 0

\* Number(parsedQuiz.isTimed) > 0 && parsedQuiz.timeLimit ? timeLimit * 60 : 0
InitialTimeLeft(q) ==
    IF q.isTimed > 0 /\ q.timeLimit # 0
    THEN q.timeLimit * SecondsPerMinute
    ELSE 0

\* const isTimedQuiz = Number(quiz.isTimed) > 0
IsTimedQuiz(q) == q.isTimed > 0

\* if (prev <= 0) in place of if (prev <= 1).
ExpiresAtZero(prev) == prev <= 0

\* if (prev <= 1) in the interval callback
Expires(prev) == prev <= 1

\* prev => Math.max(0, prev - 1)
PrevIndex(prev) == Max(0, prev - 1)

\* prev => prev + 1, the clamp forgotten.
NextIndexUnclamped(prev, n) == prev + 1

\* prev => Math.min(quiz.questions.length - 1, prev + 1)
NextIndex(prev, n) == Min(n - 1, prev + 1)

\* disabled={currentQuestionIndex === 0}
PrevDisabled(index) == index = 0

\* A Next button that is never disabled.
NextNeverDisabled(ans, question) == FALSE

\* disabled={answers[currentQuestion.id] === undefined}
NextDisabled(ans, question) == question.id \notin DOMAIN ans

\* totalQuestions taken as the number of answered questions.
ResultsOfAnswered(call, q) ==
    [score |-> call.score,
     correctAnswers |-> call.correctAnswers,
     totalQuestions |-> Cardinality(DOMAIN call.answers)]

\* setResults({ score, correctAnswers, totalQuestions: quiz.questions.length })
ResultsOf(call, q) ==
    [score |-> call.score,
     correctAnswers |-> call.correctAnswers,
     totalQuestions |-> Len(q.questions)]

\* The record passed to blink.db.quizAttempts.create.
AttemptOf(call, q) ==
    [answers |-> call.answers,
     score |-> call.score,
     totalQuestions |-> Len(q.questions)]

----------------------------------------------------------------------------
(* What the component renders *)

Mounted == route = "quiz"

\* if (loading) return <spinner>
ShowsLoading == Mounted /\ loading

\* if (isCompleted && results) return <results view>
ShowsCompleted == Mounted /\ ~loading /\ quiz # Null /\ isCompleted /\ results # Null

\* the question view, rendered last
ShowsQuestion == Mounted /\ ~loading /\ quiz # Null /\ ~(isCompleted /\ results # Null)

N == Len(quiz.questions)

currentQuestion == quiz.questions[currentQuestionIndex + 1]

\* The user is at the page and acting.
UserActs ==
    IF quiz = Null THEN TRUE
    ELSE IF quiz.isTimed = 0 THEN TRUE
    ELSE timeLeft <= UserWindow

\* A button may submit: the budget is not spent, one invocation of it being
\* kept for a countdown that has yet to run out.
WithinBudget ==
    submits + N + (IF quiz.isTimed > 0 /\ timeLeft > 0 THEN 1 ELSE 0)
        < SessionBudget

\* A timer effect that does not look at isCompleted.
TimerRunningWhenCompleted ==
    /\ Mounted
    /\ ~(startTime = Null \/ quiz = Null)
    /\ ~(quiz.isTimed = 0 \/ timeLeft = 0)

\* A timer effect with no cleanup: the interval outlives the page.
TimerRunningUnmounted ==
    /\ ~(startTime = Null \/ isCompleted \/ quiz = Null)
    /\ ~(quiz.isTimed = 0 \/ timeLeft = 0)

\* The timer effect has an interval installed.
TimerRunning ==
    /\ Mounted
    /\ ~(startTime = Null \/ isCompleted \/ quiz = Null)
    /\ ~(quiz.isTimed = 0 \/ timeLeft = 0)

----------------------------------------------------------------------------
(* Init: the component has mounted and its effect has called loadQuiz *)

\* No aggregating page is mounted.
NoPage ==
    /\ rows = <<>>
    /\ fetching = FALSE
    /\ pageAttempts = <<>>
    /\ controls = Null
    /\ shown = Null

Init ==
    /\ route = "quiz"
    /\ dbQuiz \in Quizzes \cup {NoQuiz, Malformed}
    /\ loadPending = TRUE
    /\ quiz = Null
    /\ loading = TRUE
    /\ currentQuestionIndex = 0
    /\ answers = <<>>
    /\ timeLeft = 0
    /\ startTime = Null
    /\ isCompleted = FALSE
    /\ results = Null
    /\ calls = <<>>
    /\ attempts = <<>>
    /\ alerts = 0
    /\ submits = 0
    /\ autoSubmits = 0
    /\ ticks = 0
    /\ retrySaved = FALSE
    /\ NoPage

\* The state no handler of the page writes after Init, and the counters.
backend == <<calls, attempts, alerts, submits, autoSubmits, retrySaved>>

----------------------------------------------------------------------------
(* loadQuiz *)

\* quizData.length > 0: setQuiz, setTimeLeft, setStartTime, finally setLoading(false)
LoadQuizFound ==
    /\ loadPending
    /\ dbQuiz \notin {NoQuiz, Malformed}
    /\ loadPending' = FALSE
    /\ IF Mounted
       THEN /\ quiz' = dbQuiz
            /\ timeLeft' = InitialTimeLeft(dbQuiz)
            /\ startTime' = Started
            /\ loading' = FALSE
       ELSE UNCHANGED <<quiz, timeLeft, startTime, loading>>
    /\ UNCHANGED <<pages, route, dbQuiz, currentQuestionIndex, answers, isCompleted,
                   results, backend, ticks>>

\* quizData.length === 0: navigate('/generate'), finally setLoading(false)
LoadQuizEmpty ==
    /\ loadPending
    /\ dbQuiz = NoQuiz
    /\ loadPending' = FALSE
    /\ route' = "generate"
    /\ loading' = IF Mounted THEN FALSE ELSE loading
    /\ UNCHANGED <<pages, dbQuiz, quiz, currentQuestionIndex, answers, timeLeft,
                   startTime, isCompleted, results, backend, ticks>>

\* A catch block with no finally: the spinner stays.
LoadQuizErrorKeepsLoading ==
    /\ loadPending
    /\ loadPending' = FALSE
    /\ route' = "generate"
    /\ UNCHANGED <<pages, dbQuiz, quiz, loading, currentQuestionIndex, answers,
                   timeLeft, startTime, isCompleted, results, backend, ticks>>

\* the list call rejects, or JSON.parse throws: catch navigates, finally setLoading(false)
LoadQuizError ==
    /\ loadPending
    /\ loadPending' = FALSE
    /\ route' = "generate"
    /\ loading' = IF Mounted THEN FALSE ELSE loading
    /\ UNCHANGED <<pages, dbQuiz, quiz, currentQuestionIndex, answers, timeLeft,
                   startTime, isCompleted, results, backend, ticks>>

----------------------------------------------------------------------------
(* handleSubmitQuiz: the synchronous part, up to the first await *)

\* The locals of one invocation: the answers of the render it closes over,
\* correctAnswers and score computed from them, and where it is suspended.
NewCall(auto) ==
    LET c == CountCorrect(quiz.questions, answers, 1) IN
    [answers |-> answers,
     correctAnswers |-> c,
     score |-> ScoreOf(c, Len(quiz.questions)),
     auto |-> auto,
     retry |-> alerts > 0,
     pc |-> "me"]

\* if (!quiz || !startTime) return; otherwise score and await blink.auth.me()
HandleSubmitQuiz(auto) ==
    IF quiz = Null \/ startTime = Null
    THEN UNCHANGED <<calls, submits, autoSubmits>>
    ELSE /\ calls' = Append(calls, NewCall(auto))
         /\ submits' = submits + 1
         /\ autoSubmits' = IF auto THEN autoSubmits + 1 ELSE autoSubmits

----------------------------------------------------------------------------
(* The question view's controls *)

\* an option button: handleAnswerSelect(currentQuestion.id, index)
SelectAnswer ==
    /\ ShowsQuestion
    /\ UserActs
    /\ \E index \in PickedOptions(currentQuestion) :
          answers' = SetAnswer(answers, currentQuestion.id, index)
    /\ UNCHANGED <<pages, route, dbQuiz, loadPending, quiz, loading,
                   currentQuestionIndex, timeLeft, startTime, isCompleted,
                   results, backend, ticks>>

\* the Previous button
PrevQuestion ==
    /\ ShowsQuestion
    /\ UserActs
    /\ ~PrevDisabled(currentQuestionIndex)
    /\ currentQuestionIndex' = PrevIndex(currentQuestionIndex)
    /\ UNCHANGED <<pages, route, dbQuiz, loadPending, quiz, loading, answers,
                   timeLeft, startTime, isCompleted, results, backend, ticks>>

\* the Next button, rendered on every question but the last
NextQuestion ==
    /\ ShowsQuestion
    /\ UserActs
    /\ currentQuestionIndex # N - 1
    /\ ~NextDisabled(answers, currentQuestion)
    /\ currentQuestionIndex' = NextIndex(currentQuestionIndex, N)
    /\ UNCHANGED <<pages, route, dbQuiz, loadPending, quiz, loading, answers,
                   timeLeft, startTime, isCompleted, results, backend, ticks>>

\* a button of the navigation grid: setCurrentQuestionIndex(index)
JumpToIndex(index) ==
    /\ ShowsQuestion
    /\ UserActs
    /\ currentQuestionIndex' = index
    /\ UNCHANGED <<pages, route, dbQuiz, loadPending, quiz, loading, answers,
                   timeLeft, startTime, isCompleted, results, backend, ticks>>

JumpTo ==
    /\ ShowsQuestion
    /\ \E index \in 0 .. (N - 1) : JumpToIndex(index)

\* the Submit Quiz button, rendered on the last question
SubmitQuiz ==
    /\ ShowsQuestion
    /\ UserActs
    /\ currentQuestionIndex = N - 1
    /\ WithinBudget
    /\ HandleSubmitQuiz(FALSE)
    /\ UNCHANGED <<pages, route, dbQuiz, loadPending, quiz, loading,
                   currentQuestionIndex, answers, timeLeft, startTime,
                   isCompleted, results, attempts, alerts, ticks, retrySaved>>

\* the Submit Early button, rendered when the quiz is not timed
SubmitEarly ==
    /\ ShowsQuestion
    /\ UserActs
    /\ ~IsTimedQuiz(quiz)
    /\ WithinBudget
    /\ HandleSubmitQuiz(FALSE)
    /\ UNCHANGED <<pages, route, dbQuiz, loadPending, quiz, loading,
                   currentQuestionIndex, answers, timeLeft, startTime,
                   isCompleted, results, attempts, alerts, ticks, retrySaved>>

----------------------------------------------------------------------------
(* The countdown *)

\* setTimeLeft(prev => { if (prev <= 1) { handleSubmitQuiz(); return 0 }
\*                       return prev - 1 })
Tick ==
    /\ TimerRunning
    /\ ticks' = ticks + 1
    /\ IF Expires(timeLeft)
       THEN /\ HandleSubmitQuiz(TRUE)
            /\ timeLeft' = 0
       ELSE /\ timeLeft' = timeLeft - 1
            /\ UNCHANGED <<calls, submits, autoSubmits>>
    /\ UNCHANGED <<pages, route, dbQuiz, loadPending, quiz, loading,
                   currentQuestionIndex, answers, startTime, isCompleted,
                   results, attempts, alerts, retrySaved>>

----------------------------------------------------------------------------
(* handleSubmitQuiz: the continuations of its two awaits *)

\* calls without its i-th element: the invocation has returned.
Without(i) == SubSeq(calls, 1, i - 1) \o SubSeq(calls, i + 1, Len(calls))

\* A catch block that also closes the session.
SubmitFailedCompletes(i) ==
    /\ calls' = Without(i)
    /\ alerts' = alerts + 1
    /\ isCompleted' = TRUE
    /\ results' = ResultsOf(calls[i], quiz)
    /\ UNCHANGED <<pages, route, dbQuiz, loadPending, quiz, loading,
                   currentQuestionIndex, answers, timeLeft, startTime,
                   attempts, submits, autoSubmits, ticks, retrySaved>>

\* catch (error) { console.error(...); alert(...) }
SubmitFailed(i) ==
    /\ calls' = Without(i)
    /\ alerts' = alerts + 1
    /\ UNCHANGED <<pages, route, dbQuiz, loadPending, quiz, loading,
                   currentQuestionIndex, answers, timeLeft, startTime,
                   isCompleted, results, attempts, submits, autoSubmits,
                   ticks, retrySaved>>

\* A save that replaces what the table holds.
SubmitSavedReplaces(i) ==
    /\ calls' = Without(i)
    /\ attempts' = <<AttemptOf(calls[i], quiz)>>
    /\ retrySaved' = (retrySaved \/ calls[i].retry)
    /\ IF Mounted
       THEN /\ results' = ResultsOf(calls[i], quiz)
            /\ isCompleted' = TRUE
       ELSE UNCHANGED <<results, isCompleted>>
    /\ UNCHANGED <<pages, route, dbQuiz, loadPending, quiz, loading,
                   currentQuestionIndex, answers, timeLeft, startTime,
                   alerts, submits, autoSubmits, ticks>>

\* try { ...; setResults(...); setIsCompleted(true) }
SubmitSaved(i) ==
    /\ calls' = Without(i)
    /\ attempts' = Append(attempts, AttemptOf(calls[i], quiz))
    /\ retrySaved' = (retrySaved \/ calls[i].retry)
    /\ IF Mounted
       THEN /\ results' = ResultsOf(calls[i], quiz)
            /\ isCompleted' = TRUE
       ELSE UNCHANGED <<results, isCompleted>>
    /\ UNCHANGED <<pages, route, dbQuiz, loadPending, quiz, loading,
                   currentQuestionIndex, answers, timeLeft, startTime,
                   alerts, submits, autoSubmits, ticks>>

\* blink.auth.me() resolves: quizAttempts.create is called
MeResolves ==
    \E i \in 1 .. Len(calls) :
        /\ calls[i].pc = "me"
        /\ calls' = [calls EXCEPT ![i].pc = "create"]
        /\ UNCHANGED <<pages, route, dbQuiz, loadPending, quiz, loading,
                       currentQuestionIndex, answers, timeLeft, startTime,
                       isCompleted, results, attempts, alerts, submits,
                       autoSubmits, ticks, retrySaved>>

\* blink.auth.me() rejects
MeRejects ==
    \E i \in 1 .. Len(calls) :
        /\ calls[i].pc = "me"
        /\ SubmitFailed(i)

\* blink.db.quizAttempts.create resolves
CreateResolves ==
    \E i \in 1 .. Len(calls) :
        /\ calls[i].pc = "create"
        /\ SubmitSaved(i)

\* blink.db.quizAttempts.create rejects
CreateRejects ==
    \E i \in 1 .. Len(calls) :
        /\ calls[i].pc = "create"
        /\ SubmitFailed(i)

----------------------------------------------------------------------------
(* Leaving the page: a sidebar link, or a button of the results view *)

Leave ==
    /\ Mounted
    /\ UserActs
    /\ route' = "history"
    /\ UNCHANGED <<pages, dbQuiz, loadPending, quiz, loading, currentQuestionIndex,
                   answers, timeLeft, startTime, isCompleted, results,
                   backend, ticks>>

----------------------------------------------------------------------------

Next ==
    \/ LoadQuizFound
    \/ LoadQuizEmpty
    \/ LoadQuizError
    \/ SelectAnswer
    \/ PrevQuestion
    \/ NextQuestion
    \/ JumpTo
    \/ SubmitQuiz
    \/ SubmitEarly
    \/ Tick
    \/ MeResolves
    \/ MeRejects
    \/ CreateResolves
    \/ CreateRejects
    \/ Leave

Spec == Init /\ [][Next]_vars

----------------------------------------------------------------------------
(* The timed session nobody touches: the page loads and the countdown runs *)

NextIdle ==
    \/ LoadQuizFound
    \/ LoadQuizEmpty
    \/ LoadQuizError
    \/ Tick
    \/ MeResolves
    \/ MeRejects
    \/ CreateResolves
    \/ CreateRejects

SpecIdle == Init /\ [][NextIdle]_vars

----------------------------------------------------------------------------
(* Scoring: a loaded untimed quiz with any answer map, submitted once *)

InitScore ==
    /\ route = "quiz"
    /\ dbQuiz \in ScoreQuizzes
    /\ loadPending = FALSE
    /\ quiz = dbQuiz
    /\ loading = FALSE
    /\ currentQuestionIndex = 0
    /\ answers \in AnswerMaps(dbQuiz)
    /\ timeLeft = 0
    /\ startTime = Started
    /\ isCompleted = FALSE
    /\ results = Null
    /\ calls = <<>>
    /\ attempts = <<>>
    /\ alerts = 0
    /\ submits = 0
    /\ autoSubmits = 0
    /\ ticks = 0
    /\ retrySaved = FALSE
    /\ NoPage

\* the Submit Early button, clicked once
SubmitOnce ==
    /\ ShowsQuestion
    /\ ~IsTimedQuiz(quiz)
    /\ submits = 0
    /\ HandleSubmitQuiz(FALSE)
    /\ UNCHANGED <<pages, route, dbQuiz, loadPending, quiz, loading,
                   currentQuestionIndex, answers, timeLeft, startTime,
                   isCompleted, results, attempts, alerts, ticks, retrySaved>>

NextScore ==
    \/ SubmitOnce
    \/ MeResolves
    \/ MeRejects
    \/ CreateResolves
    \/ CreateRejects

SpecScore == InitScore /\ [][NextScore]_vars

----------------------------------------------------------------------------
(* The session's states, as the specification names them *)

Loaded == quiz # Null

Completed == isCompleted /\ results # Null

InProgress == ~loading /\ Loaded /\ ~Completed

\* The number of questions whose recorded answer is the correct one.
CorrectIn(q, ans) ==
    Cardinality({ i \in 1 .. Len(q.questions) :
                    /\ q.questions[i].id \in DOMAIN ans
                    /\ ans[q.questions[i].id] = q.questions[i].correctAnswer })

\* score is an integer nearest to 100 * correct / n
IsRoundedPercentage(score, correct, n) ==
    /\ score \in 0 .. 100
    /\ 2 * (100 * correct - score * n) <= n
    /\ 2 * (score * n - 100 * correct) <= n

\* The scenario's answers: the first three of four questions, all correct.
ScenarioAnswers == [i \in 1 .. 3 |-> i - 1]

----------------------------------------------------------------------------
(* Claims *)

\* C1: a session creates at most one QuizAttempt record, also when submit is
\* invoked again before the first invocation's store call has completed.
C1_AtMostOneAttempt == Len(attempts) <= 1

\* C2: every submit computes correctCount as the number of questions whose
\* recorded answer equals the correct one (an unanswered question never
\* counts) and score = round(100 * correctCount / N), within 0 .. 100; the
\* answers [0, 1, 2, unanswered] to the key [0, 1, 2, 3] score 3 and 75.
C2_ScoreIsRoundedPercentage ==
    /\ \A i \in 1 .. Len(calls) :
          /\ calls[i].correctAnswers = CorrectIn(quiz, calls[i].answers)
          /\ IsRoundedPercentage(calls[i].score, calls[i].correctAnswers, N)
          /\ (N = 4 /\ calls[i].answers = ScenarioAnswers)
                => (calls[i].correctAnswers = 3 /\ calls[i].score = 75)
    /\ \A k \in 1 .. Len(attempts) :
          /\ attempts[k].totalQuestions = N
          /\ IsRoundedPercentage(attempts[k].score,
                                 CorrectIn(quiz, attempts[k].answers), N)

\* A submit of the scenario's answers has been saved with a score of 75.
C2_Witness ==
    /\ Loaded
    /\ Len(attempts) = 1
    /\ N = 4
    /\ attempts[1].answers = ScenarioAnswers
    /\ attempts[1].score = 75
    /\ Completed
    /\ results.correctAnswers = 3

\* C3: a submit whose persistence fails creates no QuizAttempt, shows a
\* message, and leaves the session as it was: an InProgress session stays
\* InProgress with its answers, question pointer and results unchanged.
C3_FailedSubmitLeavesSessionOpen ==
    [][ (alerts' # alerts \/ (Len(calls') < Len(calls) /\ attempts' = attempts))
        => /\ alerts' = alerts + 1
           /\ attempts' = attempts
           /\ Len(calls') = Len(calls) - 1
           /\ UNCHANGED <<quiz, loading, currentQuestionIndex, answers,
                          timeLeft, startTime, isCompleted, results, route>>
           /\ (InProgress => InProgress') ]_vars

\* After a failed submit, a submit made later in the same session was saved
\* and completed the session.
C3_Witness ==
    /\ alerts >= 1
    /\ retrySaved
    /\ Completed
    /\ Len(attempts) = 1

\* C4: in a timed session of limit L minutes that the user leaves alone,
\* after L * 60 ticks the remaining time is 0 and submit has been invoked
\* by the countdown exactly once, whatever became of its persistence; before
\* that it has not been invoked.
C4_TimeoutSubmitsOnce ==
    (Loaded /\ IsTimedQuiz(quiz)) =>
        /\ ticks <= quiz.timeLimit * SecondsPerMinute
        /\ timeLeft = quiz.timeLimit * SecondsPerMinute - ticks
        /\ ticks = quiz.timeLimit * SecondsPerMinute
              => (timeLeft = 0 /\ autoSubmits = 1 /\ submits = 1)
        /\ ticks < quiz.timeLimit * SecondsPerMinute
              => (autoSubmits = 0 /\ submits = 0)

\* The two-minute countdown has run out, its submission has failed, and no
\* second one was made.
C4_Witness ==
    /\ Loaded
    /\ IsTimedQuiz(quiz)
    /\ quiz.timeLimit = 2
    /\ ticks = 2 * SecondsPerMinute
    /\ timeLeft = 0
    /\ autoSubmits = 1
    /\ alerts = 1
    /\ calls = <<>>

\* C5: in an untimed session no countdown runs and nothing submits
\* automatically: the remaining time is 0 in every state, no tick occurs, and
\* every submit invocation comes from a button.
C5_UntimedNeverAutoSubmits ==
    /\ ~Loaded => timeLeft = 0
    /\ (Loaded /\ ~IsTimedQuiz(quiz)) =>
          /\ timeLeft = 0
          /\ ticks = 0
          /\ autoSubmits = 0
          /\ \A i \in 1 .. Len(calls) : ~calls[i].auto

\* An untimed quiz that has a limit stored was submitted by button and saved.
C5_Witness ==
    /\ Loaded
    /\ quiz.isTimed = 0
    /\ quiz.timeLimit = 1
    /\ submits >= 1
    /\ Len(attempts) >= 1

\* C6: Completed is terminal: a Completed session stays Completed, the
\* results it holds never change, and no further QuizAttempt is created.
C6_CompletedIsTerminal ==
    [][ Completed => (Completed' /\ results' = results /\ attempts' = attempts)
      ]_vars

\* C7: a session is Completed only if the store has created a QuizAttempt for
\* it, and the results held equal one such attempt: the same score, the same
\* totalQuestions = N, and correctAnswers the count its score was rounded from.
C7_ResultsMatchSavedAttempt ==
    isCompleted =>
        /\ results # Null
        /\ \E k \in 1 .. Len(attempts) :
              /\ results.score = attempts[k].score
              /\ results.totalQuestions = attempts[k].totalQuestions
              /\ results.totalQuestions = N
              /\ results.correctAnswers = CorrectIn(quiz, attempts[k].answers)
              /\ IsRoundedPercentage(attempts[k].score,
                                     results.correctAnswers, N)

\* A two-question quiz was completed with one of its questions answered.
C7_Witness ==
    /\ Completed
    /\ N = 2
    /\ Len(attempts) = 1
    /\ Cardinality(DOMAIN attempts[1].answers) = 1
    /\ results.score = 50

\* C8: the current question index stays in [0, N-1] under Previous, Next and
\* the navigation grid; Previous at 0 gives 0 and Next at N-1 gives N-1.
C8_IndexInRange ==
    Loaded =>
        /\ currentQuestionIndex \in 0 .. (N - 1)
        /\ PrevIndex(0) = 0
        /\ NextIndex(N - 1, N) = N - 1
        /\ \A i \in 0 .. (N - 1) :
              /\ PrevIndex(i) \in 0 .. (N - 1)
              /\ NextIndex(i, N) \in 0 .. (N - 1)

\* The last of two questions is shown, the first one answered, the second not.
C8_Witness ==
    /\ ShowsQuestion
    /\ N = 2
    /\ currentQuestionIndex = N - 1
    /\ DOMAIN answers = {1}

\* C9: Next is invocable only when the current question has a recorded
\* answer; Previous is invocable on every question but the first, answered or
\* not; a navigation-grid jump to any index is invocable whatever is answered.
C9_NextNeedsAnswer ==
    (ShowsQuestion /\ UserActs) =>
        /\ (ENABLED NextQuestion) => currentQuestion.id \in DOMAIN answers
        /\ currentQuestionIndex > 0 => ENABLED PrevQuestion
        /\ \A index \in 0 .. (N - 1) : ENABLED JumpToIndex(index)

\* The second of two questions was reached with nothing answered: by a jump.
C9_Witness ==
    /\ ShowsQuestion
    /\ UserActs
    /\ N = 2
    /\ currentQuestionIndex = 1
    /\ DOMAIN answers = {}

\* C10: the answer map changes only while the question view of an InProgress
\* session is shown, and only by setting the current question's entry to an
\* option: every other entry, the question index, the remaining time and the
\* completion state stay as they were.
C10_SelectAnswerFrame ==
    [][ answers' # answers
        => /\ InProgress
           /\ Mounted
           /\ DOMAIN answers' = DOMAIN answers \cup {currentQuestion.id}
           /\ answers'[currentQuestion.id] \in OptionIndices
           /\ \A k \in DOMAIN answers \ {currentQuestion.id} :
                 answers'[k] = answers[k]
           /\ UNCHANGED <<currentQuestionIndex, timeLeft, isCompleted, results,
                          quiz, loading, startTime>> ]_vars

\* Both questions are answered, the first with another option than the one
\* a submit in flight has recorded for it.
C10_Witness ==
    /\ InProgress
    /\ N = 2
    /\ DOMAIN answers = {1, 2}
    /\ Len(calls) = 1
    /\ 1 \in DOMAIN calls[1].answers
    /\ calls[1].answers[1] # answers[1]

----------------------------------------------------------------------------
\* C11: the continuation of loadQuiz puts a quiz into the session only when
\* the fetch returned a record, and then it is that record; a fetch that
\* returned no record or a question list that does not parse sends the
\* router to the generation flow with no quiz in the session; a page that is
\* still mounted when loadQuiz ends, whichever way, has its loading flag
\* false and is either showing the quiz or has been sent to the generation
\* flow; and once loadQuiz has ended, a session without a quiz never gets one.
C11_LoadOutcomes ==
    [][/\ (loadPending /\ ~loadPending') =>
            /\ Loaded' => (dbQuiz \notin {NoQuiz, Malformed} /\ quiz' = dbQuiz)
            /\ dbQuiz \in {NoQuiz, Malformed} =>
                   (route' = "generate" /\ ~Loaded')
            /\ ~Loaded' => route' # "quiz"
            /\ Mounted => (~loading' /\ (Loaded' \/ route' = "generate"))
       /\ ~loadPending => (Loaded' <=> Loaded)
       /\ loadPending => ~Loaded]_vars

\* loadQuiz has ended in the catch block of a mounted page: the stored
\* question list did not parse.
C11_Witness ==
    /\ dbQuiz = Malformed
    /\ ~loadPending
    /\ route = "generate"
    /\ ~loading
    /\ ~Loaded

----------------------------------------------------------------------------
\* C12: a step that lowers timeLeft is one interval callback of a mounted,
\* in-progress session whose quiz is timed, and it lowers timeLeft by exactly
\* 1; every interval callback lowers timeLeft by exactly 1; and no step of a
\* completed session changes timeLeft or runs an interval callback.
C12_TickDecrements ==
    [][/\ timeLeft' < timeLeft =>
            /\ InProgress /\ Mounted /\ IsTimedQuiz(quiz)
            /\ ticks' = ticks + 1
       /\ ticks' # ticks =>
            /\ InProgress /\ Mounted /\ IsTimedQuiz(quiz)
            /\ ticks' = ticks + 1
            /\ timeLeft' = timeLeft - 1
       /\ Completed => (timeLeft' = timeLeft /\ ticks' = ticks)]_vars

\* A timed session was submitted by hand with time on the clock, after the
\* countdown had been running, and has completed.
C12_Witness ==
    /\ Completed
    /\ IsTimedQuiz(quiz)
    /\ ticks > 0
    /\ timeLeft > 0
    /\ route = "quiz"

----------------------------------------------------------------------------
\* C13: timeLeft is an integer from 0 to the quiz's time limit in seconds (0
\* while no quiz is loaded), before and after every step, and no step of a
\* session whose quiz has loaded raises it.
C13_TimeLeftInRange ==
    [][/\ timeLeft \in 0 .. (IF Loaded THEN quiz.timeLimit * 60 ELSE 0)
       /\ timeLeft' \in 0 .. (IF Loaded' THEN quiz'.timeLimit * 60 ELSE 0)
       /\ Loaded => timeLeft' <= timeLeft]_vars

\* The countdown of a timed quiz is under way.
C13_Witness ==
    /\ InProgress
    /\ IsTimedQuiz(quiz)
    /\ ticks > 0
    /\ timeLeft > 0
    /\ timeLeft < quiz.timeLimit * 60

----------------------------------------------------------------------------
\* C14: in every state where the question view is shown to a user who is at
\* the page, whatever the quiz's timing, the current question and the
\* answers given, a control that invokes handleSubmitQuiz is rendered: the
\* Submit Quiz button or the Submit Early button.
C14_SubmitAlwaysAvailable ==
    (ShowsQuestion /\ InProgress /\ UserActs /\ WithinBudget)
        => (ENABLED SubmitQuiz \/ ENABLED SubmitEarly)

----------------------------------------------------------------------------
\* C15: once the router has left the quiz page, no step runs an interval
\* callback, changes timeLeft or invokes handleSubmitQuiz; and every
\* handleSubmitQuiz invocation that returns after the page was left without
\* an alert has appended its QuizAttempt to the quizAttempts table.
C15_NoTimerAfterLeaving ==
    [][~Mounted =>
          /\ ticks' = ticks
          /\ timeLeft' = timeLeft
          /\ submits' = submits
          /\ autoSubmits' = autoSubmits
          /\ Len(calls') <= Len(calls)
          /\ (Len(calls') < Len(calls) /\ alerts' = alerts) =>
                /\ Len(attempts') = Len(attempts) + 1
                /\ \E i \in 1 .. Len(calls) :
                      attempts'[Len(attempts')] = AttemptOf(calls[i], quiz)]_vars

\* The user left a timed quiz with time on the clock while a submission was
\* in flight, and its QuizAttempt has been created since.
C15_Witness ==
    /\ route = "history"
    /\ Loaded
    /\ IsTimedQuiz(quiz)
    /\ timeLeft > 0
    /\ ~isCompleted
    /\ calls = <<>>
    /\ Len(attempts) = 1

----------------------------------------------------------------------------
(* The pages that aggregate the stored attempts: Analytics and Dashboard   *)
(* (src/src/pages/Analytics.tsx) and QuizHistory (src/unnamed/part_002).   *)
(* Each loads the user's quizAttempts rows, joins each with its quiz, and  *)
(* derives what it displays while it renders.                              *)

\* Strings are sequences of characters.
\* String.prototype.toLowerCase, on the characters the titles and terms use
LowerChar(c) ==
    CASE c = "B" -> "b"
      [] c = "I" -> "i"
      [] c = "O" -> "o"
      [] c = "M" -> "m"
      [] OTHER -> c

toLowerCase(s) == [i \in 1 .. Len(s) |-> LowerChar(s[i])]

\* String.prototype.includes
includes(s, t) ==
    \E i \in 0 .. (Len(s) - Len(t)) : SubSeq(s, i + 1, i + Len(t)) = t

\* The quizzes the rows are joined with; Null is a quiz the join did not find.
BioHard == [title |-> <<"B", "I", "O">>, topic |-> <<"x">>, difficulty |-> "hard"]

StatsHard == [title |-> <<"m", "a">>, topic |-> <<"a", "B", "i", "o">>, difficulty |-> "hard"]

MathHard == [title |-> <<"M", "a">>, topic |-> <<"x">>, difficulty |-> "hard"]

BioEasy == [title |-> <<"b", "i", "o">>, topic |-> <<"b", "i", "o">>, difficulty |-> "easy"]

\* The pages are opened on this day; completedAt is a day number.
Today == 100

RECURSIVE SumSeq(_)
\* reduce((sum, x) => sum + x, 0)
SumSeq(s) == IF s = <<>> THEN 0 ELSE s[1] + SumSeq(Tail(s))

\* Math.max(...xs), and 0 where the code starts from 0
MaxOf(xs, least) ==
    IF xs = <<>> THEN least
    ELSE CHOOSE m \in {xs[i] : i \in 1 .. Len(xs)} :
            \A i \in 1 .. Len(xs) : xs[i] <= m

\* Array.prototype.map over one field
Scores(as) == [i \in 1 .. Len(as) |-> as[i].score]

Times(as) == [i \in 1 .. Len(as) |-> as[i].timeSpent]

\* Array.prototype.sort is stable: the element at key[i] goes after every
\* element with a smaller key and after the earlier elements with the same key.
StableSort(s, key) ==
    LET rank(i) == Cardinality({ j \in 1 .. Len(s) :
                        key[j] < key[i] \/ (key[j] = key[i] /\ j < i) }) + 1
        ranks == <<>> @@ [i \in 1 .. Len(s) |-> rank(i)]
    IN [r \in 1 .. Len(s) |-> s[CHOOSE i \in 1 .. Len(s) : ranks[i] = r]]

\* Array.prototype.slice(0, n)
Take(s, n) == SubSeq(s, 1, Min(n, Len(s)))

\* orderBy: { completedAt: 'desc' }, limit
ListAttempts(rs, limit) ==
    Take(StableSort(rs, [i \in 1 .. Len(rs) |-> 0 - rs[i].completedAt]), limit)

\* The rows a function from completion days to row kinds stands for, in
\* creation order: completedAt rises along the table.
RowsAt(f) ==
    LET nth(r) == CHOOSE d \in DOMAIN f :
                     Cardinality({ e \in DOMAIN f : e < d }) = r - 1
    IN [r \in 1 .. Cardinality(DOMAIN f) |->
          [completedAt |-> nth(r), score |-> f[nth(r)].score,
           timeSpent |-> f[nth(r)].timeSpent, quiz |-> f[nth(r)].quiz]]

\* The tables of at most maxLen rows completed on the given days.
RowsOf(days, kinds, maxLen) ==
    { RowsAt(f) :
        f \in UNION { [D -> kinds] :
                        D \in { E \in SUBSET days : Cardinality(E) <= maxLen } } }

\* No quiz session is mounted: the router shows the given page.
NoSession(page) ==
    /\ route = page
    /\ dbQuiz = NoQuiz
    /\ loadPending = FALSE
    /\ quiz = Null
    /\ loading = FALSE
    /\ currentQuestionIndex = 0
    /\ answers = <<>>
    /\ timeLeft = 0
    /\ startTime = Null
    /\ isCompleted = FALSE
    /\ results = Null
    /\ calls = <<>>
    /\ attempts = <<>>
    /\ alerts = 0
    /\ submits = 0
    /\ autoSubmits = 0
    /\ ticks = 0
    /\ retrySaved = FALSE

\* The session's variables, which no aggregating page writes.
session == <<route, dbQuiz, loadPending, quiz, loading, currentQuestionIndex,
             answers, timeLeft, startTime, isCompleted, results, calls,
             attempts, alerts, submits, autoSubmits, ticks, retrySaved>>

----------------------------------------------------------------------------
(* Analytics: what one render derives from attempts and timeRange *)

\* The analytics tables have at most this many rows.
MaxAnalyticsAttempts == 4

\* limit: 200 of loadAnalytics
AnalyticsLimit == 200

TimeRanges == {"7d", "30d", "90d", "all"}

\* const days = timeRange === '7d' ? 7 : timeRange === '30d' ? 30 : 90
DaysOf(timeRange) ==
    IF timeRange = "7d" THEN 7 ELSE IF timeRange = "30d" THEN 30 ELSE 90

\* The days the rows were completed on: 1, 2, 5, 30, 60 and 100 days ago.
AnalyticsDays == {0, 40, 70, 95, 98, 99}

\* A row's score, elapsed seconds and joined quiz.
AnalyticsKinds ==
    { [score |-> 50, timeSpent |-> 30, quiz |-> BioEasy],
      [score |-> 60, timeSpent |-> 61, quiz |-> BioHard],
      [score |-> 90, timeSpent |-> 90, quiz |-> StatsHard],
      [score |-> 100, timeSpent |-> 45, quiz |-> Null] }

\* The tables of many topics have at most this many rows.
MaxTopicAttempts == 7

\* The one-letter topics of the quizzes taken 1, 2, ... days ago.
TopicLetters == <<"a", "b", "c", "d", "e", "f", "g", "h", "i", "j">>

\* The attempt completed on a day: a quiz of that day's own topic.
OwnTopicKind(day) ==
    [score |-> 10 * (Today - day), timeSpent |-> 30,
     quiz |-> [title |-> <<"q">>, topic |-> <<TopicLetters[Today - day]>>,
               difficulty |-> "medium"]]

\* Tables of one attempt a day over the last days, each on the quiz of its
\* day's topic or on the quiz of topic x.
TopicRows ==
    { RowsAt([day \in D |-> IF day \in S
                             THEN [score |-> 90, timeSpent |-> 90, quiz |-> MathHard]
                             ELSE OwnTopicKind(day)]) :
        <<D, S>> \in UNION { {(Today - n) .. (Today - 1)} \X SUBSET ((Today - n) .. (Today - 1)) :
                               n \in 5 .. MaxTopicAttempts } }

AnalyticsRows ==
    RowsOf(AnalyticsDays, AnalyticsKinds, MaxAnalyticsAttempts) \cup TopicRows

\* A window that leaves out an attempt completed exactly at the cutoff.
getFilteredAttemptsAfterCutoff(as, timeRange) ==
    IF timeRange = "all" THEN as
    ELSE LET cutoff == Today - DaysOf(timeRange)
             InWindow(a) == a.completedAt > cutoff
         IN SelectSeq(as, InWindow)

\* getFilteredAttempts: the array itself for 'all', else a filtered copy
getFilteredAttempts(as, timeRange) ==
    IF timeRange = "all" THEN as
    ELSE LET cutoff == Today - DaysOf(timeRange)
             InWindow(a) == a.completedAt >= cutoff
         IN SelectSeq(as, InWindow)

\* calculateStats, over filteredAttempts in the order the array has
calculateStats(filtered) ==
    IF Len(filtered) = 0
    THEN [totalAttempts |-> 0, averageScore |-> 0, bestScore |-> 0,
          improvement |-> 0, totalTime |-> 0, averageTime |-> 0]
    ELSE LET scores == Scores(filtered)
             times == Times(filtered)
             totalAttempts == Len(filtered)
             totalTime == SumSeq(times)
             half == totalAttempts \div 2
             firstHalf == SubSeq(scores, 1, half)
             secondHalf == SubSeq(scores, half + 1, totalAttempts)
         IN [totalAttempts |-> totalAttempts,
             averageScore |-> MathRound(SumSeq(scores), Len(scores)),
             bestScore |-> MaxOf(scores, 0),
             improvement |->
                 IF totalAttempts >= 4
                 THEN MathRound(SumSeq(secondHalf) * Len(firstHalf)
                                  - SumSeq(firstHalf) * Len(secondHalf),
                                Len(firstHalf) * Len(secondHalf))
                 ELSE 0,
             totalTime |-> totalTime,
             averageTime |-> MathRound(totalTime, Len(times))]

\* filteredAttempts.sort((a, b) => a.completedAt - b.completedAt): the array
\* as the in-place sort leaves it
SortedByCompletedAt(filtered) ==
    StableSort(filtered, [i \in 1 .. Len(filtered) |-> filtered[i].completedAt])

\* getScoreOverTime's map over the sorted array
ScoreOverTime(sorted) ==
    [i \in 1 .. Len(sorted) |->
        [attempt |-> i, score |-> sorted[i].score, date |-> sorted[i].completedAt]]

\* The indices at which a key occurs for the first time: the insertion order
\* of an object's keys.
FirstOccurrences(keys) ==
    LET IsFirst(i) == \A j \in 1 .. (i - 1) : keys[j] # keys[i]
    IN SelectSeq([i \in 1 .. Len(keys) |-> i], IsFirst)

\* A bucket that takes in every attempt, whatever its key.
ScoresUnderAnyKey(filtered, keys, k) ==
    [n \in 1 .. Len(filtered) |-> filtered[n].score]

\* The scores of the attempts filed under a key.
ScoresUnder(filtered, keys, k) ==
    LET at == SelectSeq([i \in 1 .. Len(keys) |-> i], LAMBDA i : keys[i] = k)
    IN [n \in 1 .. Len(at) |-> filtered[at[n]].score]

Unknown == <<"U", "n", "k", "n", "o", "w", "n">>

\* getDifficultyBreakdown
getDifficultyBreakdown(filtered) ==
    LET keys == [i \in 1 .. Len(filtered) |->
                    IF filtered[i].quiz = Null THEN "unknown"
                    ELSE filtered[i].quiz.difficulty]
        firsts == FirstOccurrences(keys)
    IN [n \in 1 .. Len(firsts) |->
          LET scores == ScoresUnder(filtered, keys, keys[firsts[n]])
          IN [difficulty |-> keys[firsts[n]],
              count |-> Len(scores),
              averageScore |-> MathRound(SumSeq(scores), Len(scores))]]

\* getTopicPerformance
getTopicPerformance(filtered) ==
    LET keys == [i \in 1 .. Len(filtered) |->
                    IF filtered[i].quiz = Null THEN Unknown
                    ELSE filtered[i].quiz.topic]
        firsts == FirstOccurrences(keys)
        entries == [n \in 1 .. Len(firsts) |->
                      LET scores == ScoresUnder(filtered, keys, keys[firsts[n]])
                      IN [topic |-> keys[firsts[n]],
                          attempts |-> Len(scores),
                          averageScore |-> MathRound(SumSeq(scores), Len(scores)),
                          bestScore |-> MaxOf(scores, 0)]]
    IN Take(StableSort(entries, [n \in 1 .. Len(entries) |-> 0 - entries[n].attempts]), 5)

----------------------------------------------------------------------------
(* Analytics: the page *)

\* One render of Analytics with the attempts array as and the given range:
\* calculateStats() runs on filteredAttempts as it is, getScoreOverTime()
\* then sorts filteredAttempts in place, and the two breakdowns read the
\* sorted array. For 'all', filteredAttempts is the attempts array itself.
RenderAnalytics(as, timeRange) ==
    \E filtered \in {getFilteredAttempts(as, timeRange)} :
    \E sorted \in {SortedByCompletedAt(filtered)} :
        /\ shown' = [timeRange |-> timeRange,
                     stats |-> calculateStats(filtered),
                     scoreOverTime |-> ScoreOverTime(sorted),
                     difficultyBreakdown |-> getDifficultyBreakdown(sorted),
                     topicPerformance |-> getTopicPerformance(sorted)]
        /\ pageAttempts' = IF timeRange = "all" THEN sorted ELSE as

\* The page has mounted with no attempts and range '30d', the user is known
\* and loadAnalytics awaits the store, whose rows nothing has read yet.
InitAnalytics ==
    /\ NoSession("analytics")
    /\ rows = <<>>
    /\ fetching = TRUE
    /\ pageAttempts = <<>>
    /\ controls = [timeRange |-> "30d"]
    /\ shown = [timeRange |-> "30d",
                stats |-> calculateStats(<<>>),
                scoreOverTime |-> <<>>,
                difficultyBreakdown |-> <<>>,
                topicPerformance |-> <<>>]

\* the list calls resolve with the rows the store holds:
\* setAttempts(attemptsWithQuizzes), setLoading(false)
LoadAnalyticsResolves ==
    /\ fetching
    /\ fetching' = FALSE
    /\ \E stored \in AnalyticsRows :
          /\ rows' = stored
          /\ RenderAnalytics(ListAttempts(stored, AnalyticsLimit), controls.timeRange)
    /\ UNCHANGED <<session, controls>>

\* a list call rejects: console.error, setLoading(false)
LoadAnalyticsRejects ==
    /\ fetching
    /\ fetching' = FALSE
    /\ RenderAnalytics(pageAttempts, controls.timeRange)
    /\ UNCHANGED <<session, rows, controls>>

\* the range Select: setTimeRange(value)
SetTimeRange ==
    \E value \in TimeRanges :
        /\ value # controls.timeRange
        /\ controls' = [controls EXCEPT !.timeRange = value]
        /\ RenderAnalytics(pageAttempts, value)
        /\ UNCHANGED <<session, rows, fetching>>

\* onAuthStateChanged fires again for the same user: setUser(state.user)
AuthStateChanged ==
    /\ ~fetching
    /\ RenderAnalytics(pageAttempts, controls.timeRange)
    /\ UNCHANGED <<session, rows, fetching, controls>>

NextAnalytics ==
    \/ LoadAnalyticsResolves
    \/ LoadAnalyticsRejects
    \/ SetTimeRange
    \/ AuthStateChanged

SpecAnalytics == InitAnalytics /\ [][NextAnalytics]_vars

----------------------------------------------------------------------------
(* The analytics window, as the specification names it *)

\* The stored attempts of the window, in ascending completion-time order.
WindowOf(timeRange) ==
    LET InWindow(a) ==
            \/ timeRange = "all"
            \/ timeRange = "7d" /\ Today - a.completedAt <= 7
            \/ timeRange = "30d" /\ Today - a.completedAt <= 30
            \/ timeRange = "90d" /\ Today - a.completedAt <= 90
    IN SelectSeq(rows, InWindow)

\* The fetch has succeeded: the page holds the stored attempts.
AnalyticsLoaded == route = "analytics" /\ ~fetching /\ Len(pageAttempts) = Len(rows)

\* The integer nearest to num / den, halves up.
Nearest(num, den) ==
    CHOOSE r \in -100 .. 100 :
        2 * r * den <= 2 * num + den /\ 2 * num + den < 2 * (r + 1) * den

\* mean(second half) - mean(first half) of the window's scores, rounded,
\* the first half being the floor(n / 2) earliest attempts.
ImprovementOf(window) ==
    LET n == Len(window)
        h == n \div 2
        first == SumSeq(Scores(SubSeq(window, 1, h)))
        second == SumSeq(Scores(SubSeq(window, h + 1, n)))
    IN IF n < 4 THEN 0
       ELSE Nearest(second * h - first * (n - h), h * (n - h))

\* C16: the improvement the Analytics page displays is 0 when the window
\* holds fewer than 4 attempts, and otherwise the rounded difference between
\* the mean score of the later half of the window and the mean score of its
\* floor(n / 2) earliest attempts.
C16_ImprovementIsLaterMinusEarlier ==
    AnalyticsLoaded =>
        shown.stats.improvement = ImprovementOf(WindowOf(shown.timeRange))

\* C17: a render of the loaded Analytics page leaves the attempts array as it
\* was fetched, same elements in the same order, and a render with the same
\* data and the same time range displays what the render before it displayed.
C17_RenderIsPure ==
    [][(AnalyticsLoaded /\ AnalyticsLoaded') =>
          /\ pageAttempts' = pageAttempts
          /\ shown'.timeRange = shown.timeRange => shown' = shown]_vars

----------------------------------------------------------------------------
(* QuizHistory: what one render derives from attempts and the controls *)

\* The history tables have at most this many rows.
MaxHistoryAttempts == 3

\* limit: 100 of loadHistory
HistoryLimit == 100

HistoryDays == (Today - MaxHistoryAttempts) .. (Today - 1)

HistoryKinds ==
    { [score |-> 80, timeSpent |-> 30, quiz |-> BioHard],
      [score |-> 60, timeSpent |-> 61, quiz |-> StatsHard],
      [score |-> 90, timeSpent |-> 90, quiz |-> MathHard],
      [score |-> 70, timeSpent |-> 45, quiz |-> BioEasy],
      [score |-> 60, timeSpent |-> 20, quiz |-> Null] }

HistoryRows == RowsOf(HistoryDays, HistoryKinds, MaxHistoryAttempts)

\* What the user types into the search box.
SearchTerms == {<<>>, <<"b", "i", "o">>, <<"M", "a">>}

\* The items of the difficulty Select.
DifficultyFilters == {"all", "easy", "medium", "hard"}

SortKeys == {"date", "score"}

\* A search that compares the title and the topic as they are written.
matchesSearchCaseSensitive(attempt, searchTerm) ==
    \/ searchTerm = <<>>
    \/ attempt.quiz # Null /\ includes(attempt.quiz.title, searchTerm)
    \/ attempt.quiz # Null /\ includes(attempt.quiz.topic, searchTerm)

\* !searchTerm || quiz?.title.toLowerCase().includes(searchTerm.toLowerCase())
\*             || quiz?.topic.toLowerCase().includes(searchTerm.toLowerCase())
matchesSearch(attempt, searchTerm) ==
    \/ searchTerm = <<>>
    \/ /\ attempt.quiz # Null
       /\ includes(toLowerCase(attempt.quiz.title), toLowerCase(searchTerm))
    \/ /\ attempt.quiz # Null
       /\ includes(toLowerCase(attempt.quiz.topic), toLowerCase(searchTerm))

\* difficultyFilter === 'all' || attempt.quiz?.difficulty === difficultyFilter
matchesDifficulty(attempt, difficultyFilter) ==
    \/ difficultyFilter = "all"
    \/ attempt.quiz # Null /\ attempt.quiz.difficulty = difficultyFilter

\* A comparator with its operands swapped: a - b.
CompareKeyAscending(attempt, sortBy) ==
    IF sortBy = "date" THEN attempt.completedAt ELSE attempt.score

\* The comparator's order: b.completedAt - a.completedAt for 'date', else
\* b.score - a.score; the smaller key is displayed first.
CompareKey(attempt, sortBy) ==
    IF sortBy = "date" THEN 0 - attempt.completedAt ELSE 0 - attempt.score

\* attempts.filter(...).sort(...)
filteredAttempts(as, searchTerm, difficultyFilter, sortBy) ==
    LET Matches(a) == matchesSearch(a, searchTerm)
                        /\ matchesDifficulty(a, difficultyFilter)
        kept == SelectSeq(as, Matches)
    IN StableSort(kept, [i \in 1 .. Len(kept) |-> CompareKey(kept[i], sortBy)])

\* calculateStats of QuizHistory, over every loaded attempt
HistoryStats(as) ==
    IF Len(as) = 0
    THEN [totalAttempts |-> 0, averageScore |-> 0, bestScore |-> 0, totalTime |-> 0]
    ELSE [totalAttempts |-> Len(as),
          averageScore |-> MathRound(SumSeq(Scores(as)), Len(as)),
          bestScore |-> MaxOf(Scores(as), 0),
          totalTime |-> SumSeq(Times(as))]

----------------------------------------------------------------------------
(* QuizHistory: the page *)

\* One render of QuizHistory.
RenderHistory(as, c) ==
    shown' = [filteredAttempts |->
                  filteredAttempts(as, c.searchTerm, c.difficultyFilter, c.sortBy),
              stats |-> HistoryStats(as)]

\* The page has mounted with no attempts, an empty search, filter 'all' and
\* sort 'date'; the user is known and loadHistory awaits the store.
InitHistory ==
    /\ NoSession("history")
    /\ rows \in HistoryRows
    /\ fetching = TRUE
    /\ pageAttempts = <<>>
    /\ controls = [searchTerm |-> <<>>, difficultyFilter |-> "all", sortBy |-> "date"]
    /\ shown = [filteredAttempts |-> <<>>, stats |-> HistoryStats(<<>>)]

\* the list calls resolve: setAttempts(attemptsWithQuizzes), setLoading(false)
LoadHistoryResolves ==
    /\ fetching
    /\ fetching' = FALSE
    /\ pageAttempts' = ListAttempts(rows, HistoryLimit)
    /\ RenderHistory(pageAttempts', controls)
    /\ UNCHANGED <<session, rows, controls>>

\* a list call rejects: console.error, setLoading(false)
LoadHistoryRejects ==
    /\ fetching
    /\ fetching' = FALSE
    /\ RenderHistory(pageAttempts, controls)
    /\ UNCHANGED <<session, rows, pageAttempts, controls>>

\* the search box: setSearchTerm(e.target.value)
SetSearchTerm ==
    \E value \in SearchTerms :
        /\ value # controls.searchTerm
        /\ controls' = [controls EXCEPT !.searchTerm = value]
        /\ RenderHistory(pageAttempts, controls')
        /\ UNCHANGED <<session, rows, fetching, pageAttempts>>

\* the difficulty Select: setDifficultyFilter(value)
SetDifficultyFilter ==
    \E value \in DifficultyFilters :
        /\ value # controls.difficultyFilter
        /\ controls' = [controls EXCEPT !.difficultyFilter = value]
        /\ RenderHistory(pageAttempts, controls')
        /\ UNCHANGED <<session, rows, fetching, pageAttempts>>

\* the sort Select: setSortBy(value)
SetSortBy ==
    \E value \in SortKeys :
        /\ value # controls.sortBy
        /\ controls' = [controls EXCEPT !.sortBy = value]
        /\ RenderHistory(pageAttempts, controls')
        /\ UNCHANGED <<session, rows, fetching, pageAttempts>>

NextHistory ==
    \/ LoadHistoryResolves
    \/ LoadHistoryRejects
    \/ SetSearchTerm
    \/ SetDifficultyFilter
    \/ SetSortBy

SpecHistory == InitHistory /\ [][NextHistory]_vars

----------------------------------------------------------------------------
(* The history view, as the specification names it *)

\* The fetch has succeeded: the page holds the stored attempts.
HistoryLoaded == route = "history" /\ ~fetching /\ Len(pageAttempts) = Len(rows)

\* The same letter, in either case.
SameLetter(c, d) ==
    \/ c = d
    \/ {c, d} \in {{"B", "b"}, {"I", "i"}, {"O", "o"}, {"M", "m"}}

\* s contains t, case-insensitively.
ContainsIgnoringCase(s, t) ==
    \E at \in 0 .. (Len(s) - Len(t)) :
        \A k \in 1 .. Len(t) : SameLetter(s[at + k], t[k])

\* The attempt satisfies the search term and the difficulty filter.
Satisfies(a, c) ==
    /\ \/ c.searchTerm = <<>>
       \/ /\ a.quiz # Null
          /\ \/ ContainsIgnoringCase(a.quiz.title, c.searchTerm)
             \/ ContainsIgnoringCase(a.quiz.topic, c.searchTerm)
    /\ \/ c.difficultyFilter = "all"
       \/ a.quiz # Null /\ a.quiz.difficulty = c.difficultyFilter

\* The elements of a sequence.
Elements(s) == { s[i] : i \in 1 .. Len(s) }

\* C18: the loaded history page displays exactly the loaded attempts that
\* satisfy both the search term (empty, or contained case-insensitively in
\* the quiz title or the quiz topic) and the difficulty filter ('all', or
\* the quiz's difficulty), each of them once.
C18_HistoryShowsTheMatches ==
    HistoryLoaded =>
        /\ Elements(shown.filteredAttempts)
              = { a \in Elements(pageAttempts) : Satisfies(a, controls) }
        /\ Len(shown.filteredAttempts)
              = Cardinality(Elements(shown.filteredAttempts))

\* Difficulty 'hard' and search 'bio': a hard quiz titled BIO and a hard quiz
\* whose topic contains Bio are displayed, an easy quiz titled bio is not.
C18_Witness ==
    /\ HistoryLoaded
    /\ controls.searchTerm = <<"b", "i", "o">>
    /\ controls.difficultyFilter = "hard"
    /\ Len(pageAttempts) = 3
    /\ { a.quiz : a \in Elements(shown.filteredAttempts) } = {BioHard, StatsHard}
    /\ \E a \in Elements(pageAttempts) : a.quiz = BioEasy

\* The key the displayed list is ordered by.
OrderedBy(a, sortBy) == IF sortBy = "date" THEN a.completedAt ELSE a.score

\* C19: the list the loaded history page displays is a permutation of the
\* attempts that pass the filter, in descending order of completion
\* timestamp when sorting by date and of score when sorting by score; and a
\* step that changes the sort key displays the attempts displayed before it.
C19_SortedPermutation ==
    [][/\ HistoryLoaded' =>
            LET displayed == shown'.filteredAttempts IN
            /\ Elements(displayed)
                  = { a \in Elements(pageAttempts') : Satisfies(a, controls') }
            /\ Len(displayed) = Cardinality(Elements(displayed))
            /\ \A i, j \in 1 .. Len(displayed) :
                  i < j => OrderedBy(displayed[i], controls'.sortBy)
                             >= OrderedBy(displayed[j], controls'.sortBy)
       /\ (HistoryLoaded /\ controls'.sortBy # controls.sortBy) =>
            Elements(shown'.filteredAttempts) = Elements(shown.filteredAttempts)]_vars

\* Sorted by score, three attempts are displayed and the latest of them is
\* not the first.
C19_Witness ==
    /\ HistoryLoaded
    /\ controls.sortBy = "score"
    /\ Len(shown.filteredAttempts) = 3
    /\ shown.filteredAttempts[1].completedAt < shown.filteredAttempts[3].completedAt
    /\ shown.filteredAttempts[1].score > shown.filteredAttempts[3].score

----------------------------------------------------------------------------
(* Dashboard: loadStats *)

\* The dashboard tables have at most this many rows.
MaxDashboardAttempts == 6

\* The dashboard calls loadStats at most this many times.
MaxLoads == 2

\* limit: 100 of loadStats
DashboardLimit == 100

\* recentActivity: attempts.slice(0, 5)
RecentCount == 5

DashboardDays == (Today - MaxDashboardAttempts) .. (Today - 1)

DashboardKinds ==
    { [score |-> 33, timeSpent |-> 10, quiz |-> Null],
      [score |-> 66, timeSpent |-> 61, quiz |-> Null] }

\* The tables the dashboard reads: an attempt a day over the last n days.
DashboardRows ==
    { RowsAt(f) :
        f \in UNION { [{d \in DashboardDays : d >= Today - n} -> DashboardKinds] :
                        n \in 0 .. MaxDashboardAttempts } }

\* quizzes.length: how many quizzes the user has created
QuizCounts == {0, 2}

\* A mean that is truncated, not rounded.
averageScoreTruncated(as) ==
    IF Len(as) > 0 THEN SumSeq(Scores(as)) \div Len(as) ELSE 0

\* Math.round(totalAttempts > 0 ? sum / totalAttempts : 0)
averageScore(as) ==
    IF Len(as) > 0 THEN MathRound(SumSeq(Scores(as)), Len(as)) ELSE 0

\* The stats record loadStats builds from the two lists.
StatsOf(as, totalQuizzes) ==
    [totalQuizzes |-> totalQuizzes,
     totalAttempts |-> Len(as),
     averageScore |-> averageScore(as),
     bestScore |-> IF Len(as) > 0 THEN MaxOf(Scores(as), 0) ELSE 0,
     totalTimeSpent |-> SumSeq(Times(as)),
     recentActivity |-> Take(as, RecentCount)]

\* The page has mounted with stats null and loading true; the user is known
\* and the first loadStats awaits the store. fetching lists the loadStats
\* invocations in flight by their number; controls counts the invocations
\* made and names the one whose stats are shown.
InitDashboard ==
    /\ NoSession("dashboard")
    /\ rows \in DashboardRows
    /\ fetching = <<1>>
    /\ pageAttempts = <<>>
    /\ controls = [loads |-> 1, shownLoad |-> 0]
    /\ shown = [stats |-> Null, loading |-> TRUE]

\* fetching without its i-th invocation
LoadSettled(i) == SubSeq(fetching, 1, i - 1) \o SubSeq(fetching, i + 1, Len(fetching))

\* both list calls of an invocation resolve: setStats({...}), setLoading(false)
LoadStatsResolves ==
    /\ fetching # <<>>
    /\ \E totalQuizzes \in QuizCounts :
       \E stats \in {StatsOf(ListAttempts(rows, DashboardLimit), totalQuizzes)} :
       \E i \in 1 .. Len(fetching) :
          /\ fetching' = LoadSettled(i)
          /\ shown' = [stats |-> stats, loading |-> FALSE]
          /\ controls' = [controls EXCEPT !.shownLoad = fetching[i]]
          /\ UNCHANGED <<session, rows, pageAttempts>>

\* a list call of an invocation rejects: console.error, setLoading(false)
LoadStatsRejects ==
    \E i \in 1 .. Len(fetching) :
        /\ fetching' = LoadSettled(i)
        /\ shown' = [shown EXCEPT !.loading = FALSE]
        /\ UNCHANGED <<session, rows, pageAttempts, controls>>

\* visibilitychange with the document visible: loadStats() again, whether
\* or not an earlier invocation is still in flight
VisibilityChange ==
    /\ controls.loads < MaxLoads
    /\ fetching' = Append(fetching, controls.loads + 1)
    /\ controls' = [controls EXCEPT !.loads = controls.loads + 1]
    /\ shown' = [shown EXCEPT !.loading = TRUE]
    /\ UNCHANGED <<session, rows, pageAttempts>>

NextDashboard ==
    \/ LoadStatsResolves
    \/ LoadStatsRejects
    \/ VisibilityChange

SpecDashboard == InitDashboard /\ [][NextDashboard]_vars

----------------------------------------------------------------------------
(***************************************************************************)
(* The summaries of the Dashboard, QuizHistory and Profile pages over one  *)
(* store: the user opens the pages in any order, and shown keeps what each *)
(* page computed from its own read of quizAttempts.                        *)
(***************************************************************************)

\* The store holds at most this many attempts.
MaxSummaryAttempts == 101

\* The tables the three pages read: an attempt a day over the last n days,
\* for a few small n and for n from the pages' limit on, the oldest attempt
\* of one kind and the others of one kind.
SummaryRows ==
    { RowsAt([d \in (Today - n) .. (Today - 1) |-> IF d = Today - n THEN k1 ELSE k2]) :
        n \in (0 .. 3) \cup (DashboardLimit .. MaxSummaryAttempts),
        k1 \in DashboardKinds, k2 \in DashboardKinds }

\* The stats of Profile (quizzes.length and joinDate left out); its
\* quizAttempts.list has no orderBy and no limit.
ProfileStats(as) ==
    [totalAttempts |-> Len(as),
     averageScore |-> IF Len(as) > 0 THEN MathRound(SumSeq(Scores(as)), Len(as)) ELSE 0,
     bestScore |-> IF Len(as) > 0 THEN MaxOf(Scores(as), 0) ELSE 0,
     totalTimeSpent |-> SumSeq(Times(as))]

InitSummaries ==
    /\ NoSession("dashboard")
    /\ rows \in SummaryRows
    /\ fetching = <<>>
    /\ pageAttempts = <<>>
    /\ controls = Null
    /\ shown = [dashboard |-> Null, history |-> Null, profile |-> Null]

\* The Dashboard link, and loadStats to its setStats
OpenDashboard ==
    /\ route' = "dashboard"
    /\ \E attemptsList \in {ListAttempts(rows, DashboardLimit)} :
       \E totalQuizzes \in QuizCounts :
          shown' = [shown EXCEPT !.dashboard = StatsOf(attemptsList, totalQuizzes)]
    /\ UNCHANGED <<dbQuiz, loadPending, quiz, loading, currentQuestionIndex,
                   answers, timeLeft, startTime, isCompleted, results, backend,
                   ticks, rows, fetching, pageAttempts, controls>>

\* The History link, loadHistory to its setAttempts, and calculateStats
OpenHistory ==
    /\ route' = "history"
    /\ shown' = [shown EXCEPT !.history =
                    HistoryStats(ListAttempts(rows, HistoryLimit))]
    /\ UNCHANGED <<dbQuiz, loadPending, quiz, loading, currentQuestionIndex,
                   answers, timeLeft, startTime, isCompleted, results, backend,
                   ticks, rows, fetching, pageAttempts, controls>>

\* The Profile link, and the onAuthStateChanged callback to its setStats
OpenProfile ==
    /\ route' = "profile"
    /\ shown' = [shown EXCEPT !.profile = ProfileStats(rows)]
    /\ UNCHANGED <<dbQuiz, loadPending, quiz, loading, currentQuestionIndex,
                   answers, timeLeft, startTime, isCompleted, results, backend,
                   ticks, rows, fetching, pageAttempts, controls>>

NextSummaries ==
    \/ OpenDashboard
    \/ OpenHistory
    \/ OpenProfile

SpecSummaries == InitSummaries /\ [][NextSummaries]_vars

----------------------------------------------------------------------------

\* C20: the summary a successful loadStats leaves on the dashboard has the
\* number of stored attempts as total attempts, the rounded mean of their
\* scores (0 for none) as mean score, their highest score (0 for none) as
\* best score, the sum of their elapsed times as total time, and as recent
\* activity the 5 attempts completed last (all of them when there are fewer),
\* latest first.
C20_DashboardSummary ==
    (route = "dashboard" /\ shown.stats # Null) =>
        LET s == shown.stats
            recent == s.recentActivity
        IN /\ s.totalAttempts = Len(rows)
           /\ s.averageScore
                 = IF rows = <<>> THEN 0 ELSE Nearest(SumSeq(Scores(rows)), Len(rows))
           /\ IF rows = <<>> THEN s.bestScore = 0
              ELSE /\ \E a \in Elements(rows) : a.score = s.bestScore
                   /\ \A a \in Elements(rows) : a.score <= s.bestScore
           /\ s.totalTimeSpent = SumSeq(Times(rows))
           /\ Len(recent) = Min(5, Len(rows))
           /\ Elements(recent) \subseteq Elements(rows)
           /\ \A i, j \in 1 .. Len(recent) :
                 i < j => recent[i].completedAt > recent[j].completedAt
           /\ \A a \in Elements(rows) \ Elements(recent) :
                 \A b \in Elements(recent) : a.completedAt < b.completedAt

\* Six attempts are stored: the five latest are the recent activity, and the
\* mean score is not an integer before rounding.
C20_Witness ==
    /\ route = "dashboard"
    /\ shown.stats # Null
    /\ Len(rows) = 6
    /\ Len(shown.stats.recentActivity) = 5
    /\ SumSeq(Scores(rows)) % 6 = 3
    /\ shown.stats.bestScore = 66

----------------------------------------------------------------------------
\* C21: for each time range, the score-over-time sequence of the loaded
\* Analytics page lists exactly the loaded attempts completed at or after the
\* cutoff of the range (every loaded attempt for 'all'), in ascending order
\* of completion timestamp, numbered 1 .. n, each with its score.
C21_WindowAndScoreOverTime ==
    AnalyticsLoaded =>
        LET window == WindowOf(shown.timeRange)
            series == shown.scoreOverTime
        IN /\ Elements(window)
                 = { a \in Elements(pageAttempts) :
                        \/ shown.timeRange = "all"
                        \/ a.completedAt >= Today - (CASE shown.timeRange = "7d" -> 7
                                                       [] shown.timeRange = "30d" -> 30
                                                       [] shown.timeRange = "90d" -> 90) }
           /\ Len(series) = Len(window)
           /\ \A i \in 1 .. Len(series) :
                 /\ series[i].attempt = i
                 /\ series[i].date = window[i].completedAt
                 /\ series[i].score = window[i].score
           /\ \A i, j \in 1 .. Len(series) : i < j => series[i].date < series[j].date

\* Under '30d' an attempt completed exactly 30 days ago is in the series and
\* an older one is not.
C21_Witness ==
    /\ AnalyticsLoaded
    /\ shown.timeRange = "30d"
    /\ Len(shown.scoreOverTime) >= 2
    /\ shown.scoreOverTime[1].date = Today - 30
    /\ \E a \in Elements(pageAttempts) : a.completedAt < Today - 30

----------------------------------------------------------------------------
(* The analytics buckets, as the specification names them *)

\* The bucket keys of an attempt; an attempt without a quiz has the keys the
\* page prints for it.
DifficultyOf(a) == IF a.quiz = Null THEN "unknown" ELSE a.quiz.difficulty

TopicOf(a) == IF a.quiz = Null THEN Unknown ELSE a.quiz.topic

RECURSIVE SumOver(_, _)
\* The sum of f over the set S.
SumOver(f, S) ==
    IF S = {} THEN 0
    ELSE LET x == CHOOSE y \in S : TRUE IN f[x] + SumOver(f, S \ {x})

\* C22: on the loaded Analytics page every difficulty bucket and every topic
\* bucket has the number of window attempts with its key as count and the
\* rounded mean of their scores as mean, a topic bucket also their highest
\* score; no key has two buckets; the counts of the difficulty buckets add up
\* to the size of the window; the topic list is in descending order of count
\* and holds 5 buckets, or every topic when there are fewer, and no topic
\* left out has more attempts than a topic listed.
C22_Buckets ==
    AnalyticsLoaded =>
        LET w == WindowOf(shown.timeRange)
            d == shown.difficultyBreakdown
            t == shown.topicPerformance
            score == [k \in 1 .. Len(w) |-> w[k].score]
            WithDifficulty(key) == { k \in 1 .. Len(w) : DifficultyOf(w[k]) = key }
            WithTopic(key) == { k \in 1 .. Len(w) : TopicOf(w[k]) = key }
            topics == { TopicOf(w[k]) : k \in 1 .. Len(w) }
            listed == { t[i].topic : i \in 1 .. Len(t) }
        IN /\ \A i \in 1 .. Len(d) :
                 /\ d[i].count = Cardinality(WithDifficulty(d[i].difficulty))
                 /\ d[i].count > 0
                 /\ d[i].averageScore
                       = Nearest(SumOver(score, WithDifficulty(d[i].difficulty)), d[i].count)
           /\ \A i, j \in 1 .. Len(d) : i # j => d[i].difficulty # d[j].difficulty
           /\ SumOver([i \in 1 .. Len(d) |-> d[i].count], 1 .. Len(d)) = Len(w)
           /\ \A i \in 1 .. Len(t) :
                 /\ t[i].attempts = Cardinality(WithTopic(t[i].topic))
                 /\ t[i].attempts > 0
                 /\ t[i].averageScore
                       = Nearest(SumOver(score, WithTopic(t[i].topic)), t[i].attempts)
                 /\ \E k \in WithTopic(t[i].topic) : score[k] = t[i].bestScore
                 /\ \A k \in WithTopic(t[i].topic) : score[k] <= t[i].bestScore
           /\ \A i, j \in 1 .. Len(t) : i # j => t[i].topic # t[j].topic
           /\ \A i, j \in 1 .. Len(t) : i < j => t[i].attempts >= t[j].attempts
           /\ Len(t) = Min(5, Cardinality(topics))
           /\ \A key \in topics \ listed :
                 \A i \in 1 .. Len(t) : Cardinality(WithTopic(key)) <= t[i].attempts

\* Six topics are in the window: the five listed start with a topic of two
\* attempts, a topic of one attempt is left out, and the attempts are of two
\* difficulties.
C22_Witness ==
    /\ AnalyticsLoaded
    /\ Cardinality({ TopicOf(a) : a \in Elements(WindowOf(shown.timeRange)) }) = 6
    /\ Len(shown.topicPerformance) = 5
    /\ shown.topicPerformance[1].attempts = 2
    /\ shown.topicPerformance[5].attempts = 1
    /\ Len(shown.difficultyBreakdown) = 2

----------------------------------------------------------------------------
(***************************************************************************)
(* The QuizGenerator page (src/src/pages/QuizGenerator.tsx): its form, its *)
(* loading flag, the generateQuizFromTopic and generateQuizFromPDF         *)
(* invocations in flight, and the quizzes table they write.                *)
(*                                                                         *)
(* controls is the form, shown the loading flag the buttons render,        *)
(* fetching the invocations awaiting a backend call, rows the quizzes      *)
(* created so far; while the page is not mounted shown is Null and         *)
(* controls keeps the count of edits only.                                 *)
(***************************************************************************)

\* All the pages' views together make at most this many generation requests.
MaxRequests == 2

\* The user changes the form at most this many times.
MaxEdits == 3

\* String.prototype.trim, the space being the white space of the inputs
RECURSIVE trim(_)
trim(s) ==
    IF s = <<>> THEN s
    ELSE IF Head(s) = " " THEN trim(Tail(s))
    ELSE IF s[Len(s)] = " " THEN trim(SubSeq(s, 1, Len(s) - 1))
    ELSE s

\* What the user types as a topic, and pastes as document text.
Topics == {<<>>, <<" ">>, <<"c">>}

PastedTexts == {<<" ">>, <<"t">>}

\* What the extraction of a document returns.
Contents == {<<" ">>, <<"t", " ">>}

\* The file the user picks; handleFileUpload has accepted its size and type.
File == [name |-> "f"]

\* The items of the difficulty Select.
Difficulties == {"easy", "medium", "hard"}

\* Items of the time-limit Select (10, 15, 20, 30, 45 and 60 minutes).
TimeLimits == {10, 30, 60}

\* What blink.ai.generateObject resolves with: an object without a
\* questions array, one with no question, one with two questions.
GeneratedObjects ==
    LET q == [question |-> "q", correctAnswer |-> 0]
    IN { [title |-> "t"],
         [title |-> "t", questions |-> <<>>],
         [title |-> "t", questions |-> <<q, q>>] }

\* The useState initial values of the form; edits counts the changes the
\* user has made to it.
DefaultForm ==
    [activeTab |-> "topic", topic |-> <<>>, pdfFile |-> Null, pdfText |-> <<>>,
     difficulty |-> "medium", isTimedQuiz |-> TRUE, timeLimit |-> 30,
     edits |-> 0]

GeneratorMounted == route = "generate"

\* The requests made so far: in flight, ended with a quiz, ended with an alert.
Requests == Len(fetching) + Len(rows) + alerts

\* disabled={!topic.trim()}: a button that a request in flight leaves enabled.
TopicButtonDisabledWhileBlank == trim(controls.topic) = <<>>

\* disabled={!topic.trim() || loading}
TopicButtonDisabled == trim(controls.topic) = <<>> \/ shown.loading

\* disabled={(!pdfFile && !pdfText.trim()) || loading}
PdfButtonDisabled ==
    (controls.pdfFile = Null /\ trim(controls.pdfText) = <<>>) \/ shown.loading

\* The closure of a handler invocation: the form values of the render that
\* made the handler, the step it awaits, and what it has got so far (content
\* until the content check has read it).
Invocation(handler, pc) ==
    [handler |-> handler, pc |-> pc, mounted |-> TRUE,
     difficulty |-> controls.difficulty,
     isTimedQuiz |-> controls.isTimedQuiz,
     timeLimit |-> controls.timeLimit,
     content |-> <<>>,
     quizData |-> Null]

\* fetching without its i-th invocation
Settled(i) == SubSeq(fetching, 1, i - 1) \o SubSeq(fetching, i + 1, Len(fetching))

\* Every invocation's component has been unmounted.
Orphaned(cs) == [k \in 1 .. Len(cs) |-> [cs[k] EXCEPT !.mounted = FALSE]]

\* An exit that leaves the loading flag as it is.
FinallySkipped(call) == shown

\* finally { setLoading(false) }: a state update of an unmounted component
\* does nothing.
Finally(call) ==
    IF call.mounted THEN [shown EXCEPT !.loading = FALSE] ELSE shown

\* A map that gives every question the id of the first.
MapQuestionsFirstId(questions) ==
    [k \in 1 .. Len(questions) |->
        [id |-> <<"q_", 1>>,
         question |-> questions[k].question,
         correctAnswer |-> questions[k].correctAnswer]]

\* quizData.questions.map((q, index) => ({ id: `q_${index + 1}`, ... })),
\* index running from 0
MapQuestions(questions) ==
    [k \in 1 .. Len(questions) |->
        [id |-> <<"q_", (k - 1) + 1>>,
         question |-> questions[k].question,
         correctAnswer |-> questions[k].correctAnswer]]

\* The record blink.db.quizzes.create stores (the fields the pages read),
\* with timeLimit: isTimedQuiz ? timeLimit : null
QuizRecord(call) ==
    [difficulty |-> call.difficulty,
     questions |-> MapQuestions(call.quizData.questions),
     isTimed |-> call.isTimedQuiz,
     timeLimit |-> IF call.isTimedQuiz THEN call.timeLimit ELSE Null]

InitGenerator ==
    /\ NoSession("generate")
    /\ rows = <<>>
    /\ fetching = <<>>
    /\ pageAttempts = <<>>
    /\ controls = DefaultForm
    /\ shown = [loading |-> FALSE]

generatorRest == <<dbQuiz, loadPending, quiz, loading, currentQuestionIndex,
                   answers, timeLeft, startTime, isCompleted, results, calls,
                   attempts, submits, autoSubmits, ticks, retrySaved,
                   pageAttempts>>

\* A change of the form by the user.
Edit(form) ==
    /\ GeneratorMounted
    /\ controls.edits < MaxEdits
    /\ form # controls
    /\ controls' = [form EXCEPT !.edits = controls.edits + 1]
    /\ UNCHANGED <<generatorRest, route, alerts, rows, fetching, shown>>

\* onValueChange={setActiveTab}
SetActiveTab == \E tab \in {"topic", "pdf"} : Edit([controls EXCEPT !.activeTab = tab])

\* onChange={(e) => setTopic(e.target.value)}
SetTopic ==
    /\ GeneratorMounted
    /\ controls.activeTab = "topic"
    /\ \E t \in Topics : Edit([controls EXCEPT !.topic = t])

\* onChange={(e) => setPdfText(e.target.value)}
SetPdfText ==
    /\ GeneratorMounted
    /\ controls.activeTab = "pdf"
    /\ \E t \in PastedTexts : Edit([controls EXCEPT !.pdfText = t])

\* handleFileUpload: setPdfFile(file), setPdfText('')
HandleFileUpload ==
    /\ GeneratorMounted
    /\ controls.activeTab = "pdf"
    /\ Edit([controls EXCEPT !.pdfFile = File, !.pdfText = <<>>])

\* onValueChange of the difficulty Select
SetDifficulty == \E d \in Difficulties : Edit([controls EXCEPT !.difficulty = d])

\* onCheckedChange={setIsTimedQuiz}
SetIsTimedQuiz == \E b \in BOOLEAN : Edit([controls EXCEPT !.isTimedQuiz = b])

\* onValueChange={(value) => setTimeLimit(parseInt(value))}; the Select is
\* rendered while the switch is on
SetTimeLimit ==
    /\ GeneratorMounted
    /\ controls.isTimedQuiz
    /\ \E t \in TimeLimits : Edit([controls EXCEPT !.timeLimit = t])

\* alert(...), and the exit through finally: the invocation is over
Fails(i) ==
    /\ alerts' = alerts + 1
    /\ fetching' = Settled(i)
    /\ shown' = Finally(fetching[i])
    /\ UNCHANGED <<generatorRest, route, rows, controls>>

\* The invocation goes on to await its next call.
Awaits(i, pc, content, quizData) ==
    /\ fetching' = [fetching EXCEPT ![i] =
                       [@ EXCEPT !.pc = pc, !.content = content, !.quizData = quizData]]
    /\ UNCHANGED <<generatorRest, route, alerts, rows, controls, shown>>

\* A click on the topic tab's Generate button: generateQuizFromTopic up to
\* its first await.
GenerateQuizFromTopic ==
    /\ GeneratorMounted
    /\ controls.activeTab = "topic"
    /\ ~TopicButtonDisabled
    /\ Requests < MaxRequests
    /\ IF trim(controls.topic) = <<>>
       THEN /\ alerts' = alerts + 1
            /\ UNCHANGED <<fetching, shown>>
       ELSE /\ shown' = [shown EXCEPT !.loading = TRUE]
            /\ fetching' = Append(fetching, Invocation("topic", "generateObject"))
            /\ UNCHANGED alerts
    /\ UNCHANGED <<generatorRest, route, rows, controls>>

\* A click on the document tab's Generate button: generateQuizFromPDF up to
\* its first await. Pasted text alone passes the content check, as the
\* first check has found it non-blank.
GenerateQuizFromPDF ==
    /\ GeneratorMounted
    /\ controls.activeTab = "pdf"
    /\ ~PdfButtonDisabled
    /\ Requests < MaxRequests
    /\ IF controls.pdfFile = Null /\ trim(controls.pdfText) = <<>>
       THEN /\ alerts' = alerts + 1
            /\ UNCHANGED <<fetching, shown>>
       ELSE /\ shown' = [shown EXCEPT !.loading = TRUE]
            /\ fetching' = Append(fetching,
                              Invocation("pdf", IF controls.pdfFile # Null THEN "upload"
                                             ELSE "generateObject"))
            /\ UNCHANGED alerts
    /\ UNCHANGED <<generatorRest, route, rows, controls>>

\* if (!content.trim()) { alert(...); return }, else on to generateObject
ContentCheck(i, content) ==
    IF trim(content) = <<>> THEN Fails(i)
    ELSE Awaits(i, "generateObject", <<>>, Null)

\* blink.storage.upload resolves
UploadResolves ==
    \E i \in 1 .. Len(fetching) :
        /\ fetching[i].pc = "upload"
        /\ Awaits(i, "extractFromUrl", <<>>, Null)

\* blink.data.extractFromUrl resolves: content = the text, then the cleanup
ExtractFromUrlResolves ==
    \E i \in 1 .. Len(fetching) : \E content \in Contents :
        /\ fetching[i].pc = "extractFromUrl"
        /\ Awaits(i, "remove", content, Null)

\* blink.storage.upload or blink.data.extractFromUrl rejects: catch
\* (extractError), the fallback
ExtractionFallsBack ==
    \E i \in 1 .. Len(fetching) :
        /\ fetching[i].pc \in {"upload", "extractFromUrl"}
        /\ Awaits(i, "extractFromBlob", <<>>, Null)

\* blink.storage.remove resolves, or rejects into console.warn
RemoveSettles ==
    \E i \in 1 .. Len(fetching) :
        /\ fetching[i].pc = "remove"
        /\ ContentCheck(i, fetching[i].content)

\* blink.data.extractFromBlob resolves
ExtractFromBlobResolves ==
    \E i \in 1 .. Len(fetching) : \E content \in Contents :
        /\ fetching[i].pc = "extractFromBlob"
        /\ ContentCheck(i, content)

\* blink.data.extractFromBlob rejects: alert(...); return
ExtractFromBlobRejects ==
    \E i \in 1 .. Len(fetching) :
        /\ fetching[i].pc = "extractFromBlob"
        /\ Fails(i)

\* blink.ai.generateObject resolves
GenerateObjectResolves ==
    \E i \in 1 .. Len(fetching) : \E quizData \in GeneratedObjects :
        /\ fetching[i].pc = "generateObject"
        /\ Awaits(i, "me", <<>>, quizData)

\* blink.auth.me resolves: quizData.questions.map throws on an object
\* without questions, else blink.db.quizzes.create is called
AuthMeResolves ==
    \E i \in 1 .. Len(fetching) :
        /\ fetching[i].pc = "me"
        /\ IF "questions" \notin DOMAIN fetching[i].quizData THEN Fails(i)
           ELSE Awaits(i, "create", <<>>, fetching[i].quizData)

\* blink.db.quizzes.create resolves: navigate(`/quiz/${quiz.id}`), and the
\* router unmounts the page
QuizCreateResolves ==
    \E i \in 1 .. Len(fetching) :
        /\ fetching[i].pc = "create"
        /\ rows' = Append(rows, QuizRecord(fetching[i]))
        /\ route' = "quiz"
        /\ fetching' = Orphaned(Settled(i))
        /\ controls' = [edits |-> controls.edits]
        /\ shown' = Null
        /\ UNCHANGED <<generatorRest, alerts>>

\* blink.ai.generateObject, blink.auth.me or blink.db.quizzes.create
\* rejects (or me resolves without a user): catch (error) { alert(...) }
GenerationCaught ==
    \E i \in 1 .. Len(fetching) :
        /\ fetching[i].pc \in {"generateObject", "me", "create"}
        /\ Fails(i)

\* A sidebar link takes the user to another page.
LeaveGenerator ==
    /\ GeneratorMounted
    /\ route' = "elsewhere"
    /\ fetching' = Orphaned(fetching)
    /\ controls' = [edits |-> controls.edits]
    /\ shown' = Null
    /\ UNCHANGED <<generatorRest, alerts, rows>>

\* The Generate Quiz link: the page mounts anew.
OpenGenerator ==
    /\ ~GeneratorMounted
    /\ route' = "generate"
    /\ controls' = [DefaultForm EXCEPT !.edits = controls.edits]
    /\ shown' = [loading |-> FALSE]
    /\ UNCHANGED <<generatorRest, alerts, rows, fetching>>

NextGenerator ==
    \/ SetActiveTab
    \/ SetTopic
    \/ SetPdfText
    \/ HandleFileUpload
    \/ SetDifficulty
    \/ SetIsTimedQuiz
    \/ SetTimeLimit
    \/ GenerateQuizFromTopic
    \/ GenerateQuizFromPDF
    \/ UploadResolves
    \/ ExtractFromUrlResolves
    \/ ExtractionFallsBack
    \/ RemoveSettles
    \/ ExtractFromBlobResolves
    \/ ExtractFromBlobRejects
    \/ GenerateObjectResolves
    \/ AuthMeResolves
    \/ QuizCreateResolves
    \/ GenerationCaught
    \/ LeaveGenerator
    \/ OpenGenerator

SpecGenerator == InitGenerator /\ [][NextGenerator]_vars

----------------------------------------------------------------------------
(* The generation flow, as the specification names it *)

\* The invocations of the mounted page that are in flight.
OwnInFlight == {i \in 1 .. Len(fetching) : fetching[i].mounted}

\* A step in which an invocation ends and no quiz has been created.
EndsWithoutQuiz == Len(fetching') < Len(fetching) /\ rows' = rows

\* C23: a generation that ends without a quiz (extraction, generation,
\* current-user lookup or quiz creation has failed, or the document has no
\* content) shows one alert and leaves the user on the page they are on; and
\* whenever the generator page is up with none of its invocations in flight,
\* its loading flag is false.
C23_FailureSurfacedAndLoadingCleared ==
    /\ []((GeneratorMounted /\ OwnInFlight = {}) => ~shown.loading)
    /\ [][EndsWithoutQuiz => (alerts' = alerts + 1 /\ route' = route)]_vars

\* A generation from an uploaded file has ended with an alert: the user is
\* still at the generator and the loading flag is false again.
C23_Witness ==
    /\ GeneratorMounted
    /\ controls.activeTab = "pdf"
    /\ controls.pdfFile = File
    /\ alerts = 1
    /\ rows = <<>>
    /\ fetching = <<>>
    /\ ~shown.loading

----------------------------------------------------------------------------
\* C24: every quiz in the quizzes table has difficulty easy, medium or hard,
\* has a positive integer as time limit when it is timed and null when it is
\* not, and has pairwise distinct question ids.
C24_CreatedQuizWellFormed ==
    route \in {"generate", "elsewhere", "quiz"} =>
        \A n \in 1 .. Len(rows) :
            LET q == rows[n]
            IN /\ q.difficulty \in {"easy", "medium", "hard"}
               /\ IF q.isTimed THEN q.timeLimit \in Nat \ {0}
                  ELSE q.timeLimit = Null
               /\ \A i, j \in 1 .. Len(q.questions) :
                     i # j => q.questions[i].id # q.questions[j].id

\* An untimed quiz of two questions and a timed quiz of 30 minutes are in
\* the table.
C24_Witness ==
    /\ route = "quiz"
    /\ Len(rows) = 2
    /\ \E n \in 1 .. 2 :
          /\ ~rows[n].isTimed
          /\ Len(rows[n].questions) = 2
    /\ \E n \in 1 .. 2 : rows[n].isTimed /\ rows[n].timeLimit = 30

----------------------------------------------------------------------------
\* C29 as stated: at most one generation request is in flight at any time.
C29_AtMostOneInFlight ==
    route \in {"generate", "elsewhere", "quiz"} => Len(fetching) <= 1

\* C29, amended: a mounted generator page has at most one invocation of its
\* own in flight, and while it has one both Generate buttons are disabled;
\* the invocations of a page the user has left go on beside it. A step adds
\* at most one quiz to the table, and the invocation that added it is over.
C29_AtMostOneInFlightPerPage ==
    /\ [](route \in {"generate", "elsewhere", "quiz"} => Cardinality(OwnInFlight) <= 1)
    /\ []((GeneratorMounted /\ OwnInFlight # {}) =>
             (TopicButtonDisabled /\ PdfButtonDisabled))
    /\ [][rows' # rows =>
             /\ Len(rows') = Len(rows) + 1
             /\ Len(fetching') = Len(fetching) - 1]_vars

\* The page's own request is in flight, its topic button would be enabled
\* but for the loading flag, and a request of a page the user left is still
\* in flight beside it.
C29_Witness ==
    /\ GeneratorMounted
    /\ Len(fetching) = 2
    /\ Cardinality(OwnInFlight) = 1
    /\ controls.activeTab = "topic"
    /\ trim(controls.topic) # <<>>
    /\ TopicButtonDisabled

----------------------------------------------------------------------------
\* C25: no step of the client changes or removes a stored QuizAttempt: a step
\* leaves the quizAttempts table as it is or appends one record to it, so a
\* further submission adds a record beside the ones stored.
C25_AttemptsOnlyAppended ==
    [][ \/ attempts' = attempts
        \/ /\ Len(attempts') = Len(attempts) + 1
           /\ SubSeq(attempts', 1, Len(attempts)) = attempts ]_vars

\* A second record with other answers has been stored beside the first.
C25_Witness ==
    /\ route \in {"quiz", "history"}
    /\ Len(attempts) = 2
    /\ attempts[1].answers # attempts[2].answers

----------------------------------------------------------------------------
\* C26: when the session is Completed, the answer map the question review
\* reads is the answer map of a stored QuizAttempt whose score is the one
\* displayed, and the displayed count of correct answers is the count of
\* that map.
C26_ReviewMatchesStored ==
    Completed =>
        \E k \in 1 .. Len(attempts) :
            /\ attempts[k].answers = answers
            /\ attempts[k].score = results.score
            /\ results.correctAnswers = CorrectIn(quiz, answers)

----------------------------------------------------------------------------
\* C27: in a timed session no stored QuizAttempt holds an answer selected
\* after the countdown reached zero: while the countdown's own submission is
\* in flight, every stored attempt answers no question that the map captured
\* at zero leaves unanswered (answers are never removed before zero); and
\* once the countdown has reached zero and made its submission, no step
\* changes the answer map.
C27_NoAnswerAfterZero ==
    /\ [](\A i \in 1 .. Len(calls) :
            calls[i].auto =>
                \A k \in 1 .. Len(attempts) :
                    DOMAIN attempts[k].answers \subseteq DOMAIN calls[i].answers)
    /\ [][ (autoSubmits > 0 /\ Loaded /\ timeLeft = 0) => answers' = answers ]_vars

----------------------------------------------------------------------------
\* C28: on the dashboard the loading flag is false only when no loadStats
\* invocation is in flight, and the stats shown are never replaced by those
\* of an invocation started earlier than the one they came from, so that
\* the stats shown in the end are those of the invocation started last.
C28_LastLoadWins ==
    /\ []((route = "dashboard" /\ ~shown.loading) => fetching = <<>>)
    /\ [][route = "dashboard" => controls'.shownLoad >= controls.shownLoad]_vars

----------------------------------------------------------------------------
\* C30: over one store, the summaries of the dashboard, the history page and
\* the profile page have the same number of attempts, the same mean score,
\* the same best score and the same total time.
C30_SameSummaryOnAllPages ==
    LET Summary(s, time) == <<s.totalAttempts, s.averageScore, s.bestScore, time>>
    IN /\ (shown.dashboard # Null /\ shown.history # Null) =>
              Summary(shown.dashboard, shown.dashboard.totalTimeSpent)
                 = Summary(shown.history, shown.history.totalTime)
       /\ (shown.dashboard # Null /\ shown.profile # Null) =>
              Summary(shown.dashboard, shown.dashboard.totalTimeSpent)
                 = Summary(shown.profile, shown.profile.totalTimeSpent)
       /\ (shown.history # Null /\ shown.profile # Null) =>
              Summary(shown.history, shown.history.totalTime)
                 = Summary(shown.profile, shown.profile.totalTimeSpent)

====
